---- MODULE Spec2Model ----
(***************************************************************************)
(* Model of the vegeta result pipeline (package lib).                      *)
(*                                                                         *)
(*   results.go    Collect: one decode goroutine per io.Reader, a          *)
(*                 sync.WaitGroup, two unbuffered channels and a closer    *)
(*                 goroutine.                                              *)
(*   reporters.go  ReportText, ReportJSON, ReportPlot.                     *)
(*                                                                         *)
(* Spec, FairSpec and SpecPartial are specifications of Collect together   *)
(* with the goroutine that called it and receives from both channels.      *)
(* SpecSeq and FairSeq add the caller that receives from errs only once    *)
(* resc is closed; FairRetry adds a reader whose reads fail for ever.      *)
(* SpecReport is the specification of the reporters called on a collection *)
(* of Results.                                                             *)
(***************************************************************************)
EXTENDS Integers, Sequences, FiniteSets, Bags, TLC

\* Largest number of io.Readers handed to Collect.
MaxSources == 2
\* Largest number of gob values, well-formed or corrupt, the readers hold
\* altogether.
MaxItems == 4

\* Largest number of errors a goroutine sends for a reader that fails for
\* ever.
MaxRetries == 2
\* Largest number of gob values the readers hold altogether when some of
\* them may fail for ever.
MaxRetryItems == 2
\* Largest number of gob values the readers hold altogether when the caller
\* may drain one channel after the other.
MaxSeqItems == 3

\* Contents of a well-formed gob record, as far as Collect is concerned.
Vals == {"a", "b"}
\* What one dec.Decode(&r) can return: a Result, an error that is not io.EOF,
\* or io.EOF.
Corrupt == "corrupt"
EOF == "EOF"
\* The end of a reader that never yields io.EOF: every read from there on
\* fails with another error (a closed file, a broken connection).
Failing == "failing"

VARIABLES
    in,          \* the readers Collect was called with: in[i] is the sequence
                 \* of gob values reader i yields before io.EOF
    mainI,       \* Collect's loop variable: readers already handed to a goroutine
    returned,    \* Collect has returned resc and errs to its caller
    wg,          \* the sync.WaitGroup counter
    resc, errs,  \* the channels: "open" or "closed"
    pc,          \* pc[i]: where decode goroutine i stands
    pos,         \* pos[i]: how far goroutine i has read reader i: the decode
                 \* attempts it has made, io.EOF included
    r,           \* r[i]: the Result goroutine i decoded and is about to send (var r)
    heap,        \* heap[a]: the content of the Result variable at address a, for
                 \* the variables a record was decoded into
    err,         \* err[i]: what the last dec.Decode of goroutine i returned as err
    closer,      \* where the closer goroutine stands
    got,         \* Results the caller received from resc, in order of receipt
    gotErrs,     \* errors the caller received from errs, in order of receipt
    sawResc,     \* the caller has seen resc closed
    sawErrs,     \* the caller has seen errs closed
    stopped,     \* the caller has given up receiving from resc
    order,       \* how the caller receives: from both channels as values come
                 \* ("both"), or from errs only once it has seen resc closed
                 \* ("rescFirst")
    rs,          \* the Results handed to the reporters
    textRet,     \* textRet[c]: what call c of ReportText returned
    jsonRet,     \* jsonRet[c]: what call c of ReportJSON returned
    plotRet,     \* plotRet[c]: what call c of ReportPlot returned
    plotSeries,  \* plotSeries[c]: the series buffer call c of ReportPlot built
    plotReads    \* plotReads[c]: the elements r[k] call c of ReportPlot's loop read

\* The state of Collect and its caller.
cvars == <<in, order, heap, mainI, returned, wg, resc, errs, pc, pos, r, err, closer,
           got, gotErrs, sawResc, sawErrs, stopped>>

\* The state of the reporters.
rvars == <<rs, textRet, jsonRet, plotRet, plotSeries, plotReads>>

vars == <<cvars, rvars>>

Tasks == 1..Len(in)

\* All sequences of at most n gob values.
Streams(n) == UNION {[1..k -> Vals \cup {Corrupt}] : k \in 0..n}

\* All lists of n readers that hold at most budget gob values altogether.
RECURSIVE Readers(_, _)
Readers(n, budget) ==
    IF n = 0 THEN {<<>>}
    ELSE UNION {{Append(rest, s) : rest \in Readers(n - 1, budget - Len(s))} :
                s \in Streams(budget)}

NoResult == [val |-> "none", from |-> 0, at |-> 0]

\* A Result as it travels: its content, and the reader and decode attempt it
\* came from (the identity of the object behind the *Result pointer).
Result(v, i, k) == [val |-> v, from |-> i, at |-> k]

\* The address of the variable r of goroutine i in turn k of its loop.
Addr(i, k) == <<i, k>>

\* The heap h after content v is written to the variable at address a.
Store(h, a, v) == [x \in DOMAIN h \cup {a} |-> IF x = a THEN v ELSE h[x]]

\* A reporter call that has not been made yet.
NotCalled == [called |-> FALSE, payload |-> <<>>, err |-> "nil"]

\* The two calls of each reporter.
Calls == {1, 2}

\* No reporter is in use.
ReportIdle ==
    /\ rs = <<>>
    /\ textRet = [c \in Calls |-> NotCalled]
    /\ jsonRet = [c \in Calls |-> NotCalled]
    /\ plotRet = [c \in Calls |-> NotCalled]
    /\ plotSeries = [c \in Calls |-> <<>>]
    /\ plotReads = [c \in Calls |-> {}]

\* results.go:29-31: Collect starts with a zero WaitGroup and two open
\* channels; no goroutine runs yet.
CollectStart ==
    /\ heap = <<>>
    /\ mainI = 0
    /\ returned = FALSE
    /\ wg = 0
    /\ resc = "open"
    /\ errs = "open"
    /\ pc = [i \in Tasks |-> "unspawned"]
    /\ pos = [i \in Tasks |-> 0]
    /\ r = [i \in Tasks |-> NoResult]
    /\ err = [i \in Tasks |-> "none"]
    /\ closer = "unspawned"
    /\ got = <<>>
    /\ gotErrs = <<>>
    /\ sawResc = FALSE
    /\ sawErrs = FALSE
    /\ stopped = FALSE

\* The caller receives from errs: always, or once resc is drained.
ReceivesErrs == order = "both" \/ sawResc

Init ==
    /\ in \in UNION {Readers(n, MaxItems) : n \in 0..MaxSources}
    /\ order = "both"
    /\ CollectStart
    /\ ReportIdle

\* results.go:33-35: wg.Add(1); go func(src io.Reader) {...}(in[i])
Spawn ==
    /\ mainI < Len(in)
    /\ wg' = wg + 1
    /\ pc' = [pc EXCEPT ![mainI + 1] = "decode"]
    /\ mainI' = mainI + 1
    /\ UNCHANGED <<rvars, in, order, heap, returned, resc, errs, pos, r, err, closer,
                   got, gotErrs, sawResc, sawErrs, stopped>>

\* results.go:52: go func() {...}() after the loop
SpawnCloser ==
    /\ mainI = Len(in)
    /\ closer = "unspawned"
    /\ closer' = "wait"
    /\ UNCHANGED <<rvars, in, order, heap, mainI, returned, wg, resc, errs, pc, pos, r, err,
                   got, gotErrs, sawResc, sawErrs, stopped>>

\* results.go:58: return resc, errs
Return ==
    /\ closer # "unspawned"
    /\ ~returned
    /\ returned' = TRUE
    /\ UNCHANGED <<rvars, in, order, heap, mainI, wg, resc, errs, pc, pos, r, err, closer,
                   got, gotErrs, sawResc, sawErrs, stopped>>

\* Reader i ends in reads that fail for ever.
Persistent(i) == Len(in[i]) > 0 /\ in[i][Len(in[i])] = Failing

\* Goroutine i has reached the failing end of its reader.
AtFailingEnd(i) == Persistent(i) /\ pos[i] >= Len(in[i]) - 1

\* The errors the caller received from goroutine i at the failing end of its
\* reader.
Retries(i) ==
    Cardinality({n \in DOMAIN gotErrs :
                    gotErrs[n].from = i /\ gotErrs[n].at = Len(in[i])})

\* What the next dec.Decode on reader i returns: the next gob value, io.EOF
\* once the reader is exhausted, or an error other than io.EOF at an end that
\* fails for ever.
Outcome(i) ==
    IF AtFailingEnd(i) THEN Corrupt
    ELSE IF pos[i] < Len(in[i]) THEN in[i][pos[i] + 1] ELSE EOF

\* The position of reader i after the next dec.Decode: one value further,
\* except at a failing end, which yields nothing to move past.
Advance(i) == IF AtFailingEnd(i) THEN Len(in[i]) ELSE pos[i] + 1

\* Decode with the record dropped: the loop goes on without resc <- &r.
DecodeDropsRecord(i) ==
    /\ pc[i] = "decode"
    /\ LET o == Outcome(i) IN
         /\ pos' = [pos EXCEPT ![i] = @ + 1]
         /\ err' = [err EXCEPT ![i] =
                      IF o = EOF THEN EOF ELSE IF o = Corrupt THEN Corrupt ELSE "nil"]
         /\ r' = [r EXCEPT ![i] = NoResult]
         /\ wg' = IF o = EOF THEN wg - 1 ELSE wg
         /\ pc' = [pc EXCEPT ![i] =
                     IF o = EOF THEN "done"
                     ELSE IF o = Corrupt THEN "sendErr" ELSE "decode"]
    /\ UNCHANGED <<rvars, in, order, heap, mainI, returned, resc, errs, closer,
                   got, gotErrs, sawResc, sawErrs, stopped>>

\* Decode with every error, not only io.EOF, ending the goroutine.
DecodeAnyErrorEnds(i) ==
    /\ pc[i] = "decode"
    /\ LET o == Outcome(i) IN
         /\ pos' = [pos EXCEPT ![i] = @ + 1]
         /\ err' = [err EXCEPT ![i] =
                      IF o = EOF THEN EOF ELSE IF o = Corrupt THEN Corrupt ELSE "nil"]
         /\ r' = [r EXCEPT ![i] =
                    IF o \in Vals THEN Result(o, i, pos[i] + 1) ELSE NoResult]
         /\ wg' = IF o \in Vals THEN wg ELSE wg - 1
         /\ pc' = [pc EXCEPT ![i] = IF o \in Vals THEN "sendRec" ELSE "done"]
    /\ UNCHANGED <<rvars, in, order, heap, mainI, returned, resc, errs, closer,
                   got, gotErrs, sawResc, sawErrs, stopped>>

\* Decode with the send handed to a goroutine of its own (go func() { resc <-
\* &r }()): the loop decodes on while the send is pending, and the send of
\* the next record can win against it.
DecodeDetachedSend(i) ==
    /\ pc[i] \in {"decode", "sendRec"}
    /\ LET o == Outcome(i) IN
         IF pc[i] = "sendRec"
           THEN /\ o \in Vals
                /\ returned /\ ~stopped /\ ~sawResc /\ resc = "open"
                /\ pos' = [pos EXCEPT ![i] = @ + 1]
                /\ got' = Append(got, Result(o, i, pos[i] + 1))
                /\ UNCHANGED <<err, r, wg, pc>>
           ELSE /\ pos' = [pos EXCEPT ![i] = @ + 1]
                /\ err' = [err EXCEPT ![i] =
                             IF o = EOF THEN EOF
                             ELSE IF o = Corrupt THEN Corrupt ELSE "nil"]
                /\ r' = [r EXCEPT ![i] =
                           IF o \in Vals THEN Result(o, i, pos[i] + 1) ELSE NoResult]
                /\ wg' = IF o = EOF THEN wg - 1 ELSE wg
                /\ pc' = [pc EXCEPT ![i] =
                            IF o = EOF THEN "done"
                            ELSE IF o = Corrupt THEN "sendErr" ELSE "sendRec"]
                /\ got' = got
    /\ UNCHANGED <<rvars, in, order, heap, mainI, returned, resc, errs, closer,
                   gotErrs, sawResc, sawErrs, stopped>>

\* Decode with r declared once for all goroutines (var r Result ahead of the
\* for statement of Collect): every goroutine decodes into the same variable.
DecodeSharedRecord(i) ==
    /\ pc[i] = "decode"
    /\ LET o == Outcome(i) IN
         /\ pos' = [pos EXCEPT ![i] = Advance(i)]
         /\ err' = [err EXCEPT ![i] =
                      IF o = EOF THEN EOF ELSE IF o = Corrupt THEN Corrupt ELSE "nil"]
         /\ r' = [j \in Tasks |->
                    IF o \in Vals THEN Result(o, i, pos[i] + 1) ELSE r[j]]
         /\ wg' = IF o = EOF THEN wg - 1 ELSE wg
         /\ pc' = [pc EXCEPT ![i] =
                     IF o = EOF THEN "done"
                     ELSE IF o = Corrupt THEN "sendErr" ELSE "sendRec"]
    /\ UNCHANGED <<rvars, in, order, heap, mainI, returned, resc, errs, closer,
                   got, gotErrs, sawResc, sawErrs, stopped>>

\* r declared once per goroutine (var r Result ahead of the for statement
\* of the goroutine): every turn decodes into the same variable.
RecordVarReused(i) == 0

\* results.go:38: var r Result inside the loop: every turn has a variable of
\* its own, numbered here by the turn.
RecordVar(i) == pos[i] + 1

\* results.go:37-47: one turn of the loop up to the channel operation:
\* var r Result; err := dec.Decode(&r); io.EOF: wg.Done(), return;
\* another error: go on to errs <- err; no error: go on to resc <- &r.
Decode(i) ==
    /\ pc[i] = "decode"
    /\ AtFailingEnd(i) => Retries(i) < MaxRetries
    /\ LET o == Outcome(i) IN
         /\ pos' = [pos EXCEPT ![i] = Advance(i)]
         /\ IF o = EOF
              THEN /\ err' = [err EXCEPT ![i] = EOF]
                   /\ r' = [r EXCEPT ![i] = NoResult]
                   /\ wg' = wg - 1
                   /\ pc' = [pc EXCEPT ![i] = "done"]
              ELSE IF o = Corrupt
              THEN /\ err' = [err EXCEPT ![i] = Corrupt]
                   /\ r' = [r EXCEPT ![i] = NoResult]
                   /\ wg' = wg
                   /\ pc' = [pc EXCEPT ![i] = "sendErr"]
              ELSE /\ err' = [err EXCEPT ![i] = "nil"]
                   /\ r' = [r EXCEPT ![i] = Result(o, i, RecordVar(i))]
                   /\ wg' = wg
                   /\ pc' = [pc EXCEPT ![i] = "sendRec"]
         /\ heap' = IF o \in Vals
                      THEN Store(heap, Addr(i, RecordVar(i)), o) ELSE heap
    /\ UNCHANGED <<rvars, in, order, mainI, returned, resc, errs, closer,
                   got, gotErrs, sawResc, sawErrs, stopped>>

\* SendErr with return in place of continue: the first error ends the goroutine.
SendErrThenReturn(i) ==
    /\ pc[i] = "sendErr"
    /\ errs = "open"
    /\ returned /\ ~sawErrs /\ ReceivesErrs
    /\ gotErrs' = Append(gotErrs, [from |-> i, at |-> pos[i]])
    /\ pc' = [pc EXCEPT ![i] = "done"]
    /\ wg' = wg - 1
    /\ UNCHANGED <<rvars, in, order, heap, mainI, returned, resc, errs, pos, r, err, closer,
                   got, sawResc, sawErrs, stopped>>

\* SendErr on a buffered errs (make(chan error, n)): the send completes
\* without a receiver.
SendErrBuffered(i) ==
    /\ pc[i] = "sendErr"
    /\ errs = "open"
    /\ pc' = [pc EXCEPT ![i] = "decode"]
    /\ UNCHANGED <<rvars, in, order, heap, mainI, returned, wg, resc, errs, pos, r, err,
                   closer, got, gotErrs, sawResc, sawErrs, stopped>>

\* results.go:44-45: errs <- err; continue.  errs is unbuffered
\* (results.go:31): the send completes together with the caller's receive.
SendErr(i) ==
    /\ pc[i] = "sendErr"
    /\ errs = "open"
    /\ returned /\ ~sawErrs /\ ReceivesErrs
    /\ gotErrs' = Append(gotErrs, [from |-> i, at |-> pos[i]])
    /\ pc' = [pc EXCEPT ![i] = "decode"]
    /\ UNCHANGED <<rvars, in, order, heap, mainI, returned, wg, resc, errs, pos, r, err, closer,
                   got, sawResc, sawErrs, stopped>>

\* SendRec on a buffered resc (make(chan *Result, n)): the send completes
\* without a receiver.
SendRecBuffered(i) ==
    /\ pc[i] = "sendRec"
    /\ resc = "open"
    /\ pc' = [pc EXCEPT ![i] = "decode"]
    /\ UNCHANGED <<rvars, in, order, heap, mainI, returned, wg, resc, errs, pos, r, err, closer,
                   got, gotErrs, sawResc, sawErrs, stopped>>

\* results.go:47: resc <- &r.  resc is unbuffered (results.go:30).
SendRec(i) ==
    /\ pc[i] = "sendRec"
    /\ resc = "open"
    /\ returned /\ ~stopped /\ ~sawResc
    /\ got' = Append(got, r[i])
    /\ pc' = [pc EXCEPT ![i] = "decode"]
    /\ UNCHANGED <<rvars, in, order, heap, mainI, returned, wg, resc, errs, pos, r, err, closer,
                   gotErrs, sawResc, sawErrs, stopped>>

\* The channels closed by the goroutine that ends last, in place of a closer
\* behind wg.Wait(): nothing is closed before some goroutine has ended.
CloserWaitLastTask ==
    /\ closer = "wait"
    /\ wg = 0
    /\ \E i \in Tasks : pc[i] = "done"
    /\ closer' = "closeResc"
    /\ UNCHANGED <<rvars, in, order, heap, mainI, returned, wg, resc, errs, pc, pos, r, err,
                   got, gotErrs, sawResc, sawErrs, stopped>>

\* The closer without wg.Wait().
CloserNoWait ==
    /\ closer = "wait"
    /\ closer' = "closeResc"
    /\ UNCHANGED <<rvars, in, order, heap, mainI, returned, wg, resc, errs, pc, pos, r, err,
                   got, gotErrs, sawResc, sawErrs, stopped>>

\* results.go:53: wg.Wait() returns once the counter is zero.
CloserWait ==
    /\ closer = "wait"
    /\ wg = 0
    /\ closer' = "closeResc"
    /\ UNCHANGED <<rvars, in, order, heap, mainI, returned, wg, resc, errs, pc, pos, r, err,
                   got, gotErrs, sawResc, sawErrs, stopped>>

\* The closer with the two close statements exchanged: close(errs) comes
\* first.
CloseErrsFirst ==
    /\ closer = "closeResc"
    /\ errs' = "closed"
    /\ closer' = "closeErrs"
    /\ UNCHANGED <<rvars, in, order, heap, mainI, returned, wg, resc, pc, pos, r, err,
                   got, gotErrs, sawResc, sawErrs, stopped>>

\* results.go:54: close(resc)
CloseResc ==
    /\ closer = "closeResc"
    /\ resc' = "closed"
    /\ closer' = "closeErrs"
    /\ UNCHANGED <<rvars, in, order, heap, mainI, returned, wg, errs, pc, pos, r, err,
                   got, gotErrs, sawResc, sawErrs, stopped>>

\* The closer without close(errs).
CloseErrsForgotten ==
    /\ closer = "closeErrs"
    /\ closer' = "done"
    /\ UNCHANGED <<rvars, in, order, heap, mainI, returned, wg, resc, errs, pc, pos, r, err,
                   got, gotErrs, sawResc, sawErrs, stopped>>

\* results.go:55: close(errs)
CloseErrs ==
    /\ closer = "closeErrs"
    /\ errs' = "closed"
    /\ closer' = "done"
    /\ UNCHANGED <<rvars, in, order, heap, mainI, returned, wg, resc, pc, pos, r, err,
                   got, gotErrs, sawResc, sawErrs, stopped>>

\* The caller's receive from resc returns with ok = false: resc is closed.
SeeRescClosed ==
    /\ returned /\ ~stopped /\ ~sawResc
    /\ resc = "closed"
    /\ sawResc' = TRUE
    /\ UNCHANGED <<rvars, in, order, heap, mainI, returned, wg, resc, errs, pc, pos, r, err, closer,
                   got, gotErrs, sawErrs, stopped>>

\* The caller's receive from errs returns with ok = false: errs is closed.
SeeErrsClosed ==
    /\ returned /\ ~sawErrs /\ ReceivesErrs
    /\ errs = "closed"
    /\ sawErrs' = TRUE
    /\ UNCHANGED <<rvars, in, order, heap, mainI, returned, wg, resc, errs, pc, pos, r, err, closer,
                   got, gotErrs, sawResc, stopped>>

\* The caller gives up receiving from resc before it has seen it closed.
Stop ==
    /\ returned /\ ~stopped
    /\ ~sawResc
    /\ stopped' = TRUE
    /\ UNCHANGED <<rvars, in, order, heap, mainI, returned, wg, resc, errs, pc, pos, r, err, closer,
                   got, gotErrs, sawResc, sawErrs>>

Next ==
    \/ Spawn
    \/ SpawnCloser
    \/ Return
    \/ \E i \in Tasks : Decode(i)
    \/ \E i \in Tasks : SendErr(i)
    \/ \E i \in Tasks : SendRec(i)
    \/ CloserWait
    \/ CloseResc
    \/ CloseErrs
    \/ SeeRescClosed
    \/ SeeErrsClosed

\* Collect with a caller that receives from both channels until both are closed.
Spec == Init /\ [][Next]_vars

\* Collect as above, with every goroutine scheduled fairly and a caller that
\* keeps receiving from both channels.
Fairness ==
    /\ WF_vars(Spawn \/ SpawnCloser \/ Return)
    /\ \A i \in 1..MaxSources :
         WF_vars(i \in Tasks /\ (Decode(i) \/ SendErr(i) \/ SendRec(i)))
    /\ WF_vars(CloserWait \/ CloseResc \/ CloseErrs)
    /\ WF_vars(SeeRescClosed \/ SeeErrsClosed)

FairSpec == Spec /\ Fairness

\* Collect with a caller of either kind: one that receives from both
\* channels as values come, or one that receives from resc until it is closed
\* and from errs after that.
InitSeq ==
    /\ in \in UNION {Readers(n, MaxSeqItems) : n \in 0..MaxSources}
    /\ order \in {"both", "rescFirst"}
    /\ CollectStart
    /\ ReportIdle

SpecSeq == InitSeq /\ [][Next]_vars

\* The same with every goroutine scheduled fairly and a caller that keeps
\* receiving in its order.
FairSeq == SpecSeq /\ Fairness

\* The reader list rd with reader k ending in reads that fail for ever;
\* rd itself for k = 0.
FailingEnd(rd, k) ==
    [i \in 1..Len(rd) |-> IF i = k THEN Append(rd[i], Failing) ELSE rd[i]]

\* Collect called with readers one of which may fail for ever.
InitRetry ==
    /\ in \in UNION {{FailingEnd(rd, k) : k \in 0..Len(rd)} :
                      rd \in UNION {Readers(n, MaxRetryItems) : n \in 1..MaxSources}}
    /\ order = "both"
    /\ CollectStart
    /\ ReportIdle

\* Collect over such readers, with every goroutine scheduled fairly and a
\* caller that keeps receiving from both channels.
FairRetry == InitRetry /\ [][Next]_vars /\ Fairness

NextPartial ==
    \/ Spawn
    \/ SpawnCloser
    \/ Return
    \/ \E i \in Tasks : Decode(i)
    \/ \E i \in Tasks : SendErr(i)
    \/ \E i \in Tasks : SendRec(i)
    \/ CloserWait
    \/ CloseResc
    \/ CloseErrs
    \/ SeeRescClosed
    \/ SeeErrsClosed
    \/ Stop

\* Collect with a caller that may give up receiving from resc at any time.
SpecPartial == Init /\ [][NextPartial]_vars

(***************************************************************************)
(* The reporters (reporters.go)                                            *)
(***************************************************************************)

\* Largest number of Results in the collection handed to a reporter.
MaxResults == 2

\* The values of the fields of a Result (results.go:16-23) the collections
\* are drawn from.  Timestamp is in nanoseconds since the first possible
\* instant, Latency in nanoseconds.
CodeValues == {200, 500}
TimestampValues == {0, 250000000}
LatencyValues == {15999999, 16000001}
ErrorValues == {"", "timeout"}

\* results.go:16-23: type Result struct
ResultValues ==
    [Code : CodeValues, Timestamp : TimestampValues, Latency : LatencyValues,
     BytesOut : {64}, BytesIn : {512}, Error : ErrorValues]

\* results.go:62-66: Results sorted with the order Less defines: by Timestamp.
Sorted(s) == \A m, n \in DOMAIN s : m < n => s[m].Timestamp <= s[n].Timestamp

\* The collections a caller hands to a reporter: sorted by timestamp.
Collections ==
    {s \in UNION {[1..n -> ResultValues] : n \in 0..MaxResults} : Sorted(s)}

\* Durations are integers L (nanoseconds); the float the code formats is
\* L / (P * 2^s) with P = 5^s (seconds: s = 9, milliseconds: s = 6).  The
\* float64 steps before the conversion (Seconds(), * 1000) are taken as exact:
\* their error is far below the distance of L / (P * 2^s) from the nearest
\* float32 rounding boundary, since P is odd.
\*
\* L * 2^k / P as quotient q and remainder rem, for the least k that makes q
\* a 24-bit mantissa (2^23 <= q < 2^24).
RECURSIVE Scale(_, _, _, _)
Scale(q, rem, P, k) ==
    IF q >= 8388608 THEN [q |-> q, rem |-> rem, k |-> k]
    ELSE Scale(2 * q + ((2 * rem) \div P), (2 * rem) % P, P, k + 1)

\* The float32 nearest to L / P, for L > 0 and odd P (no ties): mantissa m
\* and scale k, with d = (float - L / P) * P * 2^k0 the rounding error.
Float32(L, P) ==
    LET s == Scale(L \div P, L % P, P, 0)
        up == 2 * s.rem > P
        m == IF up THEN s.q + 1 ELSE s.q
    IN  [m |-> IF m = 16777216 THEN 8388608 ELSE m,
         k |-> IF m = 16777216 THEN s.k - 1 ELSE s.k,
         d |-> IF up THEN P - s.rem ELSE 0 - s.rem,
         k0 |-> s.k]

\* X / P rounds to the float32 F.
SameFloat32(X, F, P) ==
    /\ X > 0
    /\ LET G == Float32(X, P) IN G.m = F.m /\ G.k = F.k

\* strconv's shortest decimal for the float32 F: the first digit position,
\* from the most significant, at which the float's decimal expansion cut off
\* (lo) or cut off and raised by one (hi) still rounds to F; the nearer of the
\* two when both do, the even digit on a tie.  The decimals are counted in
\* the unit of L, in which they are integers (L itself rounds to F); floorf
\* is the integer part of F in that unit.
RECURSIVE Digits(_, _, _, _, _, _)
Digits(j, floorf, d, k0, F, P) ==
    LET pw == 10 ^ j
        lo == (floorf \div pw) * pw
        hi == lo + pw
        okdown == SameFloat32(lo, F, P)
        okup == SameFloat32(hi, F, P)
        A == lo + hi - 2 * floorf
        \* twice the fractional part of F (in the unit of L) against A, for
        \* A in {0, 1}: 1 greater, 0 equal, -1 less
        cmp == IF k0 > 24
                 THEN IF A = 0 THEN (IF d = 0 THEN 0 ELSE 1)
                      ELSE (IF d < 0 THEN 1 ELSE -1)
                 ELSE LET fn == d % (2 ^ k0)
                          lhs == 2 * fn
                          rhs == A * (2 ^ k0)
                      IN  IF lhs > rhs THEN 1 ELSE IF lhs = rhs THEN 0 ELSE -1
        nearestUp == IF A < 0 THEN TRUE
                     ELSE IF A >= 2 THEN FALSE
                     ELSE IF cmp = 1 THEN TRUE
                     ELSE IF cmp = -1 THEN FALSE
                     ELSE (lo \div pw) % 2 = 1
    IN  IF okdown /\ okup THEN (IF nearestUp THEN hi ELSE lo)
        ELSE IF okdown THEN lo
        ELSE IF okup THEN hi
        ELSE IF j = 0 THEN -1
        ELSE Digits(j - 1, floorf, d, k0, F, P)

\* reporters.go:63-69: strconv.FormatFloat(x, 'f', -1, 32) for x = L / (P *
\* 2^s): x is rounded to a float32 and printed as the shortest decimal that
\* reads back as that float32.  The result is that decimal, in the unit of L
\* (0 <= |L| < 10^9).
FormatFloat(L, P) ==
    LET a == IF L < 0 THEN 0 - L ELSE L
        F == Float32(a, P)
        fl == IF F.k0 > 24 THEN (IF F.d < 0 THEN -1 ELSE 0)
              ELSE F.d \div (2 ^ F.k0)
        dec == IF a = 0 THEN 0 ELSE Digits(9, a + fl, F.d, F.k0, F, P)
    IN  IF L < 0 THEN 0 - dec ELSE dec

\* FormatFloat of every duration between two timestamps, as seconds:
\* nanoseconds / 10^9 = nanoseconds / (5^9 * 2^9), in units of 10^-9 s.
PrintedSeconds ==
    [ns \in {t - u : t, u \in TimestampValues} |-> FormatFloat(ns, 1953125)]

\* FormatFloat of every latency, as milliseconds: nanoseconds / 10^6 =
\* nanoseconds / (5^6 * 2^6), in units of 10^-6 ms.
PrintedMillis == [ns \in LatencyValues |-> FormatFloat(ns, 15625)]

\* reporters.go:63-64: strconv.FormatFloat(
\* r[i].Timestamp.Sub(r[0].Timestamp).Seconds(), 'f', -1, 32)
FormatSeconds(ns) == PrintedSeconds[ns]

\* reporters.go:67,69: strconv.FormatFloat(r[i].Latency.Seconds()*1000, 'f',
\* -1, 32)
FormatMillis(ns) == PrintedMillis[ns]

\* A series slot: the text NaN, or a number printed by FormatFloat.
NaN == [nan |-> TRUE, val |-> 0]
Num(v) == [nan |-> FALSE, val |-> v]

\* The point with the ERR and the OK slot exchanged.
SeriesPointSwapped(s, i) ==
    [elapsed |-> Num(FormatSeconds(s[i].Timestamp - s[1].Timestamp)),
     err |-> IF s[i].Error = "" THEN Num(FormatMillis(s[i].Latency)) ELSE NaN,
     ok |-> IF s[i].Error = "" THEN NaN ELSE Num(FormatMillis(s[i].Latency))]

\* reporters.go:63-70: the point of record i: "[elapsed,NaN,latency]" for a
\* Result without Error, "[elapsed,latency,NaN]" otherwise; the columns are
\* Seconds, ERR, OK (reporters.go:116).
SeriesPoint(s, i) ==
    [elapsed |-> Num(FormatSeconds(s[i].Timestamp - s[1].Timestamp)),
     err |-> IF s[i].Error = "" THEN NaN ELSE Num(FormatMillis(s[i].Latency)),
     ok |-> IF s[i].Error = "" THEN Num(FormatMillis(s[i].Latency)) ELSE NaN]

\* reporters.go:61-77: the series buffer after the loop, the points in the
\* order of the collection (the commas between them are not modelled).
Series(s) == [i \in 1..Len(s) |-> SeriesPoint(s, i)]

\* results.go:16-23: the fields of Result.
ResultFields == {"Code", "Timestamp", "Latency", "BytesOut", "BytesIn", "Error"}

\* reporters.go:163-169: the fields of the element the template reads for one
\* table row, in order: .Code, .Timestamp, .Code, .Request (Method), .Request
\* (URL, twice), .BytesIn, .BytesOut.
RowFields ==
    <<"Code", "Timestamp", "Code", "Request", "Request", "Request",
      "BytesIn", "BytesOut">>

\* text/template: evaluating a field the struct does not have stops Execute
\* with an error.  With no element the range body is not evaluated.
ExecuteFails(s) ==
    /\ Len(s) > 0
    /\ \E k \in DOMAIN RowFields : RowFields[k] \notin ResultFields

\* reporters.go:163-170: the table row of one Result.
Row(rec) ==
    [bgcolor |-> IF rec.Code = 200 THEN "#8AE234" ELSE "#FA7878",
     Timestamp |-> rec.Timestamp,
     Code |-> rec.Code,
     BytesIn |-> rec.BytesIn,
     BytesOut |-> rec.BytesOut]

\* reporters.go:99-175: the document plotsTemplate.Execute writes: the series
\* in the Dygraph call, one row per Result, or the No Results row.
Document(series, s) ==
    [series |-> series,
     rows |-> [i \in 1..Len(s) |-> Row(s[i])],
     noResults |-> Len(s) = 0]

\* The loop with the first timestamp read ahead of it (first :=
\* r[0].Timestamp before the for statement): r[0] is read whatever len(r) is.
LoopReadsHoisted(s) == {1} \cup (1..Len(s))

\* reporters.go:62-64: the elements of r the loop reads: r[i] and r[0] in
\* every turn i < len(r) (r[0] is element 1 here), nothing without a turn.
LoopReads(s) == UNION {{1, i} : i \in 1..Len(s)}

\* reporters.go:91: plotsTemplate.Execute(&out, ctx): the content of out and
\* the error when Execute returns.  Execute writes as it goes: when the first
\* row fails, out holds the document up to that row.
Execute(series, s) ==
    IF ExecuteFails(s)
      THEN [out |-> <<[series |-> series, rows |-> <<>>, noResults |-> FALSE]>>,
            err |-> "exec error"]
      ELSE [out |-> <<Document(series, s)>>, err |-> "nil"]

\* The return with the buffer handed out whatever the error (return
\* out.Bytes(), err).
PlotReturnBuffer(e) == [called |-> TRUE, payload |-> e.out, err |-> e.err]

\* reporters.go:92-96: if err != nil { return nil, err }; return out.Bytes(),
\* nil
PlotReturn(e) ==
    IF e.err # "nil"
      THEN [called |-> TRUE, payload |-> <<>>, err |-> e.err]
      ELSE [called |-> TRUE, payload |-> e.out, err |-> "nil"]

\* reporters.go:60-97: a returned payload is a sequence of one document; the
\* nil payload is the empty sequence.  Reading an element r does not have
\* is a run-time panic: the call returns nothing.
ReportPlot(c) ==
    /\ ~plotRet[c].called
    /\ plotReads' = [plotReads EXCEPT ![c] = LoopReads(rs)]
    /\ IF LoopReads(rs) \subseteq DOMAIN rs
         THEN /\ plotSeries' = [plotSeries EXCEPT ![c] = Series(rs)]
              /\ plotRet' = [plotRet EXCEPT ![c] =
                               PlotReturn(Execute(Series(rs), rs))]
         ELSE /\ plotSeries' = plotSeries
              /\ plotRet' = [plotRet EXCEPT ![c] =
                               [called |-> TRUE, payload |-> <<>>,
                                err |-> "panic: index out of range"]]
    /\ UNCHANGED <<cvars, rs, textRet, jsonRet>>

\* The key under which m.StatusCodes counts a code: the code as a string.
CodeKey(code) == ToString(code)

\* NewMetrics: the summary statistics of a collection.  Success is the ratio
\* in hundredths of a percent; Errors lists the distinct error strings in the
\* order of their first occurrence.
RECURSIVE ErrorSet(_)
ErrorSet(s) ==
    IF s = <<>> THEN <<>>
    ELSE LET init == ErrorSet(SubSeq(s, 1, Len(s) - 1))
             e == s[Len(s)].Error
         IN  IF e = "" \/ \E k \in DOMAIN init : init[k] = e
               THEN init ELSE Append(init, e)

RECURSIVE Sum(_, _)
Sum(s, field) ==
    IF s = <<>> THEN 0 ELSE s[Len(s)][field] + Sum(SubSeq(s, 1, Len(s) - 1), field)

NewMetrics(s) ==
    [Requests |-> Len(s),
     BytesIn |-> Sum(s, "BytesIn"),
     BytesOut |-> Sum(s, "BytesOut"),
     Success |-> IF Len(s) = 0 THEN 0
                 ELSE (10000 * Cardinality({k \in DOMAIN s : s[k].Error = ""}))
                        \div Len(s),
     StatusCodes |-> [key \in {CodeKey(s[k].Code) : k \in DOMAIN s} |->
                        Cardinality({k \in DOMAIN s : CodeKey(s[k].Code) = key})],
     Errors |-> ErrorSet(s)]

\* The orders in which a range statement can visit the keys of a map: Go
\* leaves the order unspecified and varies it from one range to the next.
RangeOrders(map) ==
    {o \in [1..Cardinality(DOMAIN map) -> DOMAIN map] :
        \A m, n \in DOMAIN o : m # n => o[m] # o[n]}

\* reporters.go:47-50: if err := w.Flush(); err != nil { return []byte{}, err
\* }; return out.Bytes(), nil
TextReturn(out, flushErr) ==
    IF flushErr # "nil"
      THEN [called |-> TRUE, payload |-> <<>>, err |-> flushErr]
      ELSE [called |-> TRUE, payload |-> out, err |-> "nil"]

\* reporters.go:26-51: the lines ReportText writes; the code:count pairs in
\* the order the range over m.StatusCodes visits them.  The tabwriter
\* flushes into a bytes.Buffer (reporters.go:28-30), whose Write returns no
\* error: Flush returns nil.
ReportText(c) ==
    /\ ~textRet[c].called
    /\ LET m == NewMetrics(rs) IN
       \E o \in RangeOrders(m.StatusCodes) :
         textRet' = [textRet EXCEPT ![c] =
                       TextReturn(
                          <<[Requests |-> m.Requests,
                             BytesIn |-> m.BytesIn,
                             BytesOut |-> m.BytesOut,
                             Success |-> m.Success,
                             StatusCodes |->
                                [n \in DOMAIN o |-> <<o[n], m.StatusCodes[o[n]]>>],
                             Errors |-> m.Errors]>>,
                          "nil")]
    /\ UNCHANGED <<cvars, rs, jsonRet, plotRet, plotSeries, plotReads>>

\* reporters.go:54-56: json.Marshal(NewMetrics(r)); encoding/json writes the
\* keys of a map in sorted order, so the map itself stands for its encoding.
ReportJSON(c) ==
    /\ ~jsonRet[c].called
    /\ jsonRet' = [jsonRet EXCEPT ![c] =
                     [called |-> TRUE, payload |-> <<NewMetrics(rs)>>, err |-> "nil"]]
    /\ UNCHANGED <<cvars, rs, textRet, plotRet, plotSeries, plotReads>>

\* A caller with a collection in hand; Collect is not in use.
ReportInit ==
    /\ in = <<>>
    /\ order = "both"
    /\ CollectStart
    /\ rs \in Collections
    /\ textRet = [c \in Calls |-> NotCalled]
    /\ jsonRet = [c \in Calls |-> NotCalled]
    /\ plotRet = [c \in Calls |-> NotCalled]
    /\ plotSeries = [c \in Calls |-> <<>>]
    /\ plotReads = [c \in Calls |-> {}]

NextReport ==
    \/ \E c \in Calls : ReportText(c)
    \/ \E c \in Calls : ReportJSON(c)
    \/ \E c \in Calls : ReportPlot(c)

\* Each reporter called twice over one unchanged collection, the calls in any
\* order.
SpecReport == ReportInit /\ [][NextReport]_vars

(***************************************************************************)
(* Properties of Collect                                                   *)
(***************************************************************************)

\* The caller has received from both channels until both were closed.
Drained == sawResc /\ sawErrs

\* Every reader holds only well-formed records.
WellFormed == \A i \in Tasks : \A k \in 1..Len(in[i]) : in[i][k] \in Vals

\* The bag of the elements of a sequence.
SeqBag(s) ==
    [v \in {s[k] : k \in DOMAIN s} |-> Cardinality({k \in DOMAIN s : s[k] = v})]

\* The bag of the well-formed records of readers 1..n.
RECURSIVE ReaderBag(_)
ReaderBag(n) ==
    IF n = 0 THEN EmptyBag
    ELSE ReaderBag(n - 1) (+) SeqBag(SelectSeq(in[n], LAMBDA v : v \in Vals))

RECURSIVE TotalLen(_)
TotalLen(n) == IF n = 0 THEN 0 ELSE TotalLen(n - 1) + Len(in[n])

\* How often the caller received the record reader i yields at attempt k.
Deliveries(i, k) ==
    Cardinality({n \in DOMAIN got : got[n].from = i /\ got[n].at = k})

\* The errors the caller received that come from reader i.
ErrorsFrom(i) == {n \in DOMAIN gotErrs : gotErrs[n].from = i}

\* C1: once the caller has drained both channels of a Collect over well-formed
\* readers, it has received each record of each reader exactly once: as many
\* Results as the readers hold, the same bag of contents, nothing else.
LosslessMerge ==
    (Drained /\ WellFormed) =>
        /\ Len(got) = TotalLen(Len(in))
        /\ SeqBag([n \in DOMAIN got |-> got[n].val]) = ReaderBag(Len(in))
        /\ \A i \in Tasks : \A k \in 1..Len(in[i]) : Deliveries(i, k) = 1
        /\ \A n \in DOMAIN got :
             /\ got[n].from \in Tasks
             /\ got[n].at \in 1..Len(in[got[n].from])
             /\ got[n].val = in[got[n].from][got[n].at]

\* Two well-formed readers, one with two records, fully drained.
LosslessMergeWitness ==
    /\ Drained /\ WellFormed
    /\ Len(in) = 2 /\ Len(in[1]) >= 1 /\ Len(in[2]) >= 2
    /\ Len(got) >= 3
    /\ gotErrs = <<>>

\* C2: under fair scheduling and a caller that keeps receiving, every decode
\* goroutine eventually calls wg.Done() and both channels are eventually closed.
EventualClosure ==
    <>(/\ \A i \in Tasks : pc[i] = "done"
       /\ wg = 0
       /\ resc = "closed"
       /\ errs = "closed")

\* Both channels closed after two readers, one of which held a corrupt value.
EventualClosureWitness ==
    /\ Len(in) = 2
    /\ \E i \in Tasks : \E k \in 1..Len(in[i]) : in[i][k] = Corrupt
    /\ \E i \in Tasks : \E k \in 1..Len(in[i]) : in[i][k] \in Vals
    /\ \A i \in Tasks : pc[i] = "done"
    /\ resc = "closed" /\ errs = "closed"

\* C3: a channel is closed only when every decode goroutine, the ones not yet
\* started included, has got io.EOF from its reader and called wg.Done().
ClosedOnlyAfterAllEOF ==
    (resc = "closed" \/ errs = "closed") =>
        /\ mainI = Len(in)
        /\ wg = 0
        /\ \A i \in Tasks :
             /\ pc[i] = "done"
             /\ err[i] = EOF
             /\ pos[i] = Len(in[i]) + 1

\* resc closed, errs still open, after two non-empty readers.
ClosedOnlyAfterAllEOFWitness ==
    /\ resc = "closed" /\ errs = "open"
    /\ Len(in) = 2 /\ Len(in[1]) >= 1 /\ Len(in[2]) >= 1

\* Reader i yields exactly one corrupt value, with well-formed records around it.
OneCorrupt(i) == Cardinality({k \in 1..Len(in[i]) : in[i][k] = Corrupt}) = 1

\* C4: a reader with exactly one corrupt value gives the draining caller
\* exactly one error, and every well-formed record of that reader, the ones
\* after the corrupt value included, exactly once.
SingleCorruptDoesNotAbort ==
    \A i \in Tasks :
        (Drained /\ OneCorrupt(i)) =>
            /\ Cardinality(ErrorsFrom(i)) = 1
            /\ \A n \in ErrorsFrom(i) : in[i][gotErrs[n].at] = Corrupt
            /\ \A k \in 1..Len(in[i]) :
                 Deliveries(i, k) = IF in[i][k] \in Vals THEN 1 ELSE 0

\* A reader with a record, a corrupt value and a record again, beside another
\* reader, drained.
SingleCorruptWitness ==
    /\ Drained
    /\ Len(in) = 2
    /\ \E i \in Tasks :
         /\ Len(in[i]) = 3
         /\ in[i][1] \in Vals /\ in[i][2] = Corrupt /\ in[i][3] \in Vals
         /\ Deliveries(i, 3) = 1
         /\ Cardinality(ErrorsFrom(i)) = 1

\* C5: the caller receives the records of one reader in the order they were
\* decoded, whatever the interleaving with the other readers.
PerSourceOrder ==
    \A m, n \in DOMAIN got :
        (m < n /\ got[m].from = got[n].from) => got[m].at < got[n].at

\* Two records of one reader received with a record of another in between.
PerSourceOrderWitness ==
    /\ Len(got) >= 3
    /\ got[1].from = got[3].from
    /\ got[2].from # got[1].from

\* Goroutine i holds a decoded record while the caller no longer receives
\* from resc.
Blocked(i) == stopped /\ pc[i] = "sendRec"

\* C6: once the caller has given up receiving from resc while a goroutine
\* holds a decoded record, that goroutine stays at its send for ever, never
\* calls wg.Done(), and neither channel is closed.
PartialDrainBlocks ==
    /\ [](\A i \in Tasks : Blocked(i) =>
            (wg > 0 /\ closer \in {"unspawned", "wait"}
             /\ resc = "open" /\ errs = "open"))
    /\ [][\A i \in Tasks : Blocked(i) =>
            (stopped' /\ pc'[i] = "sendRec" /\ r'[i] = r[i])]_vars

\* A goroutine blocked at its send after the caller gave up, while the other
\* goroutine has finished and the closer waits.
PartialDrainWitness ==
    /\ Len(in) = 2
    /\ \E i, j \in Tasks : Blocked(i) /\ pc[j] = "done"
    /\ closer = "wait"
    /\ Len(got) >= 1

\* C7: a goroutine calls wg.Done() and ends in exactly the steps whose
\* dec.Decode returned io.EOF; such a step sends nothing; a dec.Decode that
\* failed otherwise does not end the goroutine.
EOFOnlyTerminator ==
    /\ [](\A i \in Tasks : pc[i] = "done" => err[i] = EOF)
    /\ [][\A i \in Tasks :
            LET attempt == pos'[i] # pos[i] IN
            /\ (pc[i] # "done" /\ pc'[i] = "done") <=> (attempt /\ err'[i] = EOF)
            /\ (attempt /\ err'[i] = EOF) =>
                 (wg' = wg - 1 /\ got' = got /\ gotErrs' = gotErrs)
            /\ (attempt /\ err'[i] # EOF) => (wg' = wg /\ pc'[i] # "done")]_vars
    /\ [][wg' < wg => \E i \in Tasks : pos'[i] # pos[i] /\ err'[i] = EOF]_vars

\* A goroutine that ended after its reader yielded a corrupt value, while
\* another one is still at work.
EOFOnlyTerminatorWitness ==
    /\ \E i, j \in Tasks :
         /\ pc[i] = "done"
         /\ \E k \in 1..Len(in[i]) : in[i][k] = Corrupt
         /\ pc[j] \in {"decode", "sendErr", "sendRec"}
    /\ gotErrs # <<>>

\* C15: a step of decode goroutine i leaves the readers as they are and
\* changes the position, the pending record, the last error and the place
\* in the loop of no goroutine but i; beyond its own state it changes only
\* the WaitGroup counter and what has passed through the two channels.
TaskIsolation ==
    [][\A i \in Tasks :
         (pc[i] # "unspawned" /\ pc'[i] # pc[i]) =>
             /\ in' = in
             /\ \A j \in Tasks \ {i} :
                  /\ pos'[j] = pos[j]
                  /\ r'[j] = r[j]
                  /\ err'[j] = err[j]
                  /\ pc'[j] = pc[j]
             /\ UNCHANGED <<mainI, returned, closer, resc, errs,
                            sawResc, sawErrs, stopped>>
             /\ (wg' # wg \/ got' # got \/ gotErrs' # gotErrs
                 \/ pos'[i] # pos[i] \/ r'[i] # r[i] \/ err'[i] # err[i])]_vars

\* Goroutine 1 holds a decoded record while goroutine 2 has decoded and sent
\* two values of its own reader.
TaskIsolationWitness ==
    /\ Len(in) = 2
    /\ pc[1] = "sendRec" /\ r[1].from = 1 /\ pos[1] = 1
    /\ pos[2] >= 2
    /\ \E n \in DOMAIN got : got[n].from = 2

\* C16: in every state a goroutine standing at resc <- &r or errs <- err
\* finds its channel open, and the closer standing at a close finds its
\* channel open; a channel changes only from open to closed, only by the
\* closer's statement for it, and a closed channel receives nothing more.
NoSendOnClosedNoDoubleClose ==
    /\ [](/\ \A i \in Tasks : pc[i] = "sendRec" => resc = "open"
          /\ \A i \in Tasks : pc[i] = "sendErr" => errs = "open"
          /\ closer = "closeResc" => resc = "open"
          /\ closer = "closeErrs" => errs = "open")
    /\ [][/\ resc' # resc =>
               (resc = "open" /\ closer = "closeResc" /\ closer' = "closeErrs")
          /\ errs' # errs =>
               (errs = "open" /\ closer = "closeErrs" /\ closer' = "done")
          /\ resc = "closed" => got' = got
          /\ errs = "closed" => gotErrs' = gotErrs]_vars

\* Both channels closed after two goroutines, each of which has sent on both
\* channels.
NoSendOnClosedWitness ==
    /\ Len(in) = 2
    /\ resc = "closed" /\ errs = "closed" /\ closer = "done"
    /\ \A i \in Tasks :
         /\ \E n \in DOMAIN got : got[n].from = i
         /\ \E n \in DOMAIN gotErrs : gotErrs[n].from = i

\* Some reader holds a corrupt value.
HasCorrupt == \E i \in Tasks : \E k \in 1..Len(in[i]) : in[i][k] = Corrupt

\* Some goroutine stands at errs <- err, every other one has ended or stands
\* there too, the caller waits for a value from resc, the closer waits for the
\* WaitGroup, and both channels are open.
Deadlocked ==
    /\ \E i \in Tasks : pc[i] = "sendErr"
    /\ \A i \in Tasks : pc[i] \in {"sendErr", "done"}
    /\ returned /\ ~sawResc /\ ~sawErrs /\ ~ReceivesErrs
    /\ wg > 0 /\ closer = "wait"
    /\ resc = "open" /\ errs = "open"

\* Collect, its goroutines and the caller have all come to their end.
Finished ==
    /\ \A i \in Tasks : pc[i] = "done"
    /\ closer = "done"
    /\ Drained

\* C17: with a caller that receives from errs only after it has seen resc
\* closed, a goroutine that has reached errs <- err stays there for ever with
\* both channels open, and every run over a reader with a corrupt value ends
\* deadlocked; with a caller that receives from both channels, some step is
\* possible in every state in which Collect has not finished, and a
\* goroutine at errs <- err finds the caller ready.
SequentialDrainDeadlocks ==
    /\ [][\A i \in Tasks :
            (order = "rescFirst" /\ pc[i] = "sendErr") =>
                (pc'[i] = "sendErr" /\ resc' = "open" /\ errs' = "open"
                 /\ ~sawResc')]_vars
    /\ (order = "rescFirst" /\ HasCorrupt) => <>[]Deadlocked
    /\ [](order = "rescFirst" => (Deadlocked => ~ENABLED Next))
    /\ [](order = "both" =>
            /\ ~Deadlocked
            /\ Finished \/ ENABLED Next
            /\ \A i \in Tasks :
                 (pc[i] = "sendErr" /\ returned) => ENABLED SendErr(i))

\* A caller that drains resc first, deadlocked with a goroutine that has a
\* record behind its corrupt value, after the other goroutine has ended.
SequentialDrainWitness ==
    /\ order = "rescFirst"
    /\ Deadlocked
    /\ Len(in) = 2
    /\ \E i, j \in Tasks :
         /\ pc[i] = "sendErr" /\ pos[i] < Len(in[i])
         /\ pc[j] = "done" /\ Len(in[j]) >= 1
    /\ Len(got) >= 1

\* C18: errs is closed only when resc is closed already; no step closes both
\* channels; and while resc is closed and errs still open no goroutine stands
\* at errs <- err and the caller receives no error.
ClosureOrder ==
    /\ [](errs = "closed" => resc = "closed")
    /\ []((resc = "closed" /\ errs = "open") =>
            \A i \in Tasks : pc[i] = "done")
    /\ [][/\ ~(resc' # resc /\ errs' # errs)
          /\ (resc = "closed" /\ errs = "open") => gotErrs' = gotErrs
          /\ errs' # errs => resc = "closed"]_vars

\* The caller has seen resc closed while errs is still open, after it
\* received an error and a record.
ClosureOrderWitness ==
    /\ resc = "closed" /\ errs = "open"
    /\ sawResc /\ ~sawErrs
    /\ Len(gotErrs) >= 1 /\ Len(got) >= 1

\* C19: Collect called with no reader is never kept from returning and its
\* closer is never kept from closing, whatever the caller does; both channels
\* get closed, Collect returns, nothing is ever received from either channel,
\* and the draining caller sees both channels closed with nothing received.
ZeroSources ==
    /\ [](in = <<>> =>
            /\ got = <<>> /\ gotErrs = <<>>
            /\ wg = 0
            /\ ~returned => ENABLED (SpawnCloser \/ Return)
            /\ closer \notin {"unspawned", "done"} =>
                  ENABLED (CloserWait \/ CloseResc \/ CloseErrs))
    /\ (in = <<>>) => <>(returned /\ resc = "closed" /\ errs = "closed")
    /\ (in = <<>>) => <>[](Drained /\ got = <<>> /\ gotErrs = <<>>)

\* No reader: both channels are closed before the caller has looked at
\* either, and Collect has returned.
ZeroSourcesWitness ==
    /\ in = <<>>
    /\ returned
    /\ resc = "closed" /\ errs = "closed"
    /\ ~sawResc /\ ~sawErrs

\* The address of the variable the n-th received pointer points to.
PointsTo(n) == Addr(got[n].from, got[n].at)

\* C20: every Result the caller received is still what it was when it was
\* received, no two received pointers point to the same variable, and no
\* step writes to a variable a record was decoded into before.
DeliveredNeverOverwritten ==
    /\ [](\A n \in DOMAIN got :
             /\ PointsTo(n) \in DOMAIN heap
             /\ heap[PointsTo(n)] = got[n].val)
    /\ [](\A m, n \in DOMAIN got : m # n => PointsTo(m) # PointsTo(n))
    /\ [][\A a \in DOMAIN heap : a \in DOMAIN heap' /\ heap'[a] = heap[a]]_vars

\* The caller holds the first record of a reader while the goroutine of that
\* reader has decoded a different record and the other goroutine a record
\* too.
DeliveredWitness ==
    /\ Len(in) = 2
    /\ \E n \in DOMAIN got : \E i, j \in Tasks :
         /\ i # j
         /\ got[n].from = i /\ got[n].at = 1
         /\ pc[i] = "sendRec" /\ r[i].val # got[n].val
         /\ pc[j] = "sendRec"

(***************************************************************************)
(* Properties of the reporters                                             *)
(***************************************************************************)

\* C8: two calls of one reporter over the same collection return the same
\* payload and the same error, for ReportText, ReportJSON and ReportPlot.
ReportersDeterministic ==
    /\ (textRet[1].called /\ textRet[2].called) => textRet[1] = textRet[2]
    /\ (jsonRet[1].called /\ jsonRet[2].called) => jsonRet[1] = jsonRet[2]
    /\ (plotRet[1].called /\ plotRet[2].called) => plotRet[1] = plotRet[2]

\* C9: for a collection of n >= 1 Results ReportPlot returns no error and a
\* document with n series points in the order of the collection and n table
\* rows, row i showing the timestamp, code and byte counts of Result i.
PlotRendersEveryRecord ==
    \A c \in Calls :
        (plotRet[c].called /\ Len(rs) >= 1) =>
            /\ plotRet[c].err = "nil"
            /\ Len(plotRet[c].payload) = 1
            /\ Len(plotRet[c].payload[1].series) = Len(rs)
            /\ \A i \in 1..Len(rs) :
                 plotRet[c].payload[1].series[i] = SeriesPoint(rs, i)
            /\ Len(plotRet[c].payload[1].rows) = Len(rs)
            /\ \A i \in 1..Len(rs) :
                 LET row == plotRet[c].payload[1].rows[i] IN
                 /\ row.Timestamp = rs[i].Timestamp
                 /\ row.Code = rs[i].Code
                 /\ row.BytesIn = rs[i].BytesIn
                 /\ row.BytesOut = rs[i].BytesOut

\* The slots of point t are those of a Result with error e: one slot holds
\* the value v, the other is missing, and the OK slot is the one that holds
\* it exactly if e is empty.
SlotsOf(t, e, v) ==
    /\ (e = "") => (t.ok = Num(v) /\ t.err = NaN)
    /\ (e # "") => (t.err = Num(v) /\ t.ok = NaN)

\* C10 as claimed: every point of the series has exactly one latency slot
\* populated, with the Result's latency in milliseconds, the OK slot if and
\* only if Error is empty.
DualSeriesExact ==
    \A c \in Calls :
        plotRet[c].called =>
            /\ Len(plotSeries[c]) = Len(rs)
            /\ \A i \in 1..Len(rs) :
                 SlotsOf(plotSeries[c][i], rs[i].Error, rs[i].Latency)

\* The populated slot of point t.
Populated(t) == IF t.ok.nan THEN t.err.val ELSE t.ok.val

\* C10 as amended: every point of the series has exactly one latency slot
\* populated and the other missing, the OK slot if and only if Error is
\* empty; the populated slot holds the Result's latency in milliseconds
\* rounded to single precision: the latency itself below 16 ms, and a value
\* within 2^-23 of it (relatively) from there on.
DualSeriesSinglePrecision ==
    \A c \in Calls :
        plotRet[c].called =>
            /\ Len(plotSeries[c]) = Len(rs)
            /\ \A i \in 1..Len(rs) :
                 LET t == plotSeries[c][i]
                     L == rs[i].Latency
                     v == Populated(t)
                     diff == IF v >= L THEN v - L ELSE L - v
                 IN  /\ SlotsOf(t, rs[i].Error, v)
                     /\ diff <= L \div 8388608
                     /\ L < 16000000 => v = L

\* A plot of a failed and a successful Result, one of them with a latency
\* that single precision does not hold.
DualSeriesWitness ==
    \E c \in Calls :
        /\ plotRet[c].called
        /\ Len(rs) = 2
        /\ rs[1].Error = "" /\ rs[2].Error # ""
        /\ rs[1].Latency = 16000001 /\ rs[2].Latency = 15999999
        /\ plotSeries[c][1].ok = Num(16000002) /\ plotSeries[c][1].err = NaN
        /\ plotSeries[c][2].err = Num(15999999) /\ plotSeries[c][2].ok = NaN

\* C11: ReportPlot of the empty collection reads no element of it, returns
\* no error, and returns a document with an empty series, no table row and
\* the No Results row.
EmptyPlot ==
    \A c \in Calls :
        (plotRet[c].called /\ rs = <<>>) =>
            /\ plotReads[c] = {}
            /\ plotRet[c].err = "nil"
            /\ Len(plotRet[c].payload) = 1
            /\ plotSeries[c] = <<>>
            /\ plotRet[c].payload[1].series = <<>>
            /\ plotRet[c].payload[1].rows = <<>>
            /\ plotRet[c].payload[1].noResults

\* Both calls of ReportPlot made on the empty collection.
EmptyPlotWitness ==
    /\ rs = <<>>
    /\ \A c \in Calls : plotRet[c].called /\ plotRet[c].payload # <<>>

\* The payload of a text report that holds every line of the report of s.
CompleteText(t, s) ==
    /\ t.Requests = Len(s)
    /\ t.BytesIn = NewMetrics(s).BytesIn
    /\ t.BytesOut = NewMetrics(s).BytesOut
    /\ t.Success = NewMetrics(s).Success
    /\ {t.StatusCodes[n] : n \in DOMAIN t.StatusCodes} =
         {<<key, NewMetrics(s).StatusCodes[key]>> :
            key \in DOMAIN NewMetrics(s).StatusCodes}
    /\ t.Errors = NewMetrics(s).Errors

\* A reporter returned either the whole payload and no error, or an error
\* and no byte.
AllOrNothing(ret, complete) ==
    \/ ret.err = "nil" /\ Len(ret.payload) = 1 /\ complete
    \/ ret.err # "nil" /\ ret.payload = <<>>

\* C12: every call of ReportText, ReportJSON and ReportPlot returns either
\* the complete payload with a nil error, or an error with an empty payload;
\* never an error together with bytes already written.
NoPartialOutput ==
    \A c \in Calls :
        /\ textRet[c].called =>
              AllOrNothing(textRet[c], CompleteText(textRet[c].payload[1], rs))
        /\ jsonRet[c].called =>
              AllOrNothing(jsonRet[c], jsonRet[c].payload[1] = NewMetrics(rs))
        /\ plotRet[c].called =>
              AllOrNothing(plotRet[c],
                           plotRet[c].payload[1] = Document(Series(rs), rs))

\* All three reporters called on a collection of two Results: ReportPlot
\* failed and returned no byte, the other two returned their payload.
NoPartialOutputWitness ==
    /\ Len(rs) = 2
    /\ \E c \in Calls :
         /\ plotRet[c].called /\ plotRet[c].err # "nil" /\ plotRet[c].payload = <<>>
         /\ textRet[c].called /\ textRet[c].err = "nil" /\ textRet[c].payload # <<>>
         /\ jsonRet[c].called /\ jsonRet[c].err = "nil" /\ jsonRet[c].payload # <<>>

\* The series that carries the latency of point t: OK or ERR.
SeriesClass(t) == IF t.ok.nan THEN "ERR" ELSE "OK"

\* C13: in a plot, two Results that agree on whether Error is empty are shown
\* with the same outcome class, whatever their status codes: their latencies
\* are in the same chart series and their table rows have the same colour.
ErrorSoleDiscriminator ==
    \A c \in Calls :
        plotRet[c].called =>
            \A i, j \in DOMAIN rs :
                ((rs[i].Error = "") <=> (rs[j].Error = "")) =>
                    /\ SeriesClass(plotSeries[c][i]) = SeriesClass(plotSeries[c][j])
                    /\ Row(rs[i]).bgcolor = Row(rs[j]).bgcolor

\* Goroutine i has sent every error the bound lets it send for its failing
\* reader.
Exhausted(i) == Persistent(i) /\ Retries(i) = MaxRetries

\* C14: the goroutine of a reader that fails for ever never calls wg.Done(),
\* sends error after error to a caller that keeps receiving (as many as the
\* bound MaxRetries allows), and while there is such a reader neither channel
\* is ever closed, whatever the other goroutines have done.
UnboundedRetry ==
    /\ [](\A i \in Tasks : Persistent(i) =>
             (pc[i] # "done" /\ (pc[i] # "unspawned" => wg > 0)
              /\ closer \in {"unspawned", "wait"}
              /\ resc = "open" /\ errs = "open"))
    /\ [][\A i \in Tasks : Persistent(i) => Retries(i)' >= Retries(i)]_vars
    /\ <>(\A i \in Tasks : Persistent(i) => Exhausted(i))
    /\ <>(\A i \in Tasks : ~Persistent(i) => pc[i] = "done")

\* The goroutine of a failing reader has sent its errors after the other
\* goroutine has met io.EOF and called wg.Done(): the closer still waits.
UnboundedRetryWitness ==
    /\ Len(in) = 2
    /\ \E i, j \in Tasks :
         /\ Exhausted(i) /\ pc[i] = "decode"
         /\ ~Persistent(j) /\ pc[j] = "done" /\ Len(in[j]) >= 1
    /\ wg = 1
    /\ closer = "wait"
    /\ Len(gotErrs) >= MaxRetries

====
